---- MODULE Spec2Model ----
(***************************************************************************)
(* Model of apps/alice.py: the initiator ("Alice") side of the ML-KEM key  *)
(* exchange demo.  main() loads a JSON parameter file, generates a key     *)
(* pair, sends the encapsulation key to Bob over an outbound TCP           *)
(* connection (send_ek_to_bob), validates the listen port, waits for Bob's *)
(* ciphertext on a listening socket (wait_for_bob_response) and            *)
(* decapsulates it.  The peer and the network are the environment.         *)
(***************************************************************************)
EXTENDS Integers, Sequences, FiniteSets, TLC

(***************************************************************************)
(* Bounds of the model (not program constants).                            *)
(***************************************************************************)
\* number of peers that may try to connect to Alice's listen port
MaxConns == 2
\* total number of send calls the peers make on their connections
MaxPeerSends == 2
\* bytes a peer may send beyond the ciphertext size
MaxExtra == 1
\* number of recv calls that return fewer bytes than available and requested
MaxPartialReads == 1
\* number of pieces in which sendall writes the encapsulation key
EkBlocks == 2

(***************************************************************************)
(* Program constants.                                                      *)
(***************************************************************************)
\* alice.py:53
CIPHER_TEXT_SIZE_IN_BYTES == 768
\* alice.py:124, the literal 1024
MIN_LISTEN_PORT == 1024

(***************************************************************************)
(* Python values.  Every value is a record with a tag t and a payload v,   *)
(* so that values of different Python types are never compared directly.   *)
(***************************************************************************)
None == [t |-> "none", v |-> <<>>]
\* a key that the JSON object does not hold, an option not given
Absent == [t |-> "absent", v |-> <<>>]
PyStr(s) == [t |-> "str", v |-> s]
PyInt(n) == [t |-> "int", v |-> n]
PyBytes(b) == [t |-> "bytes", v |-> b]
PyDict(f) == [t |-> "dict", v |-> f]
PyBool(b) == [t |-> "bool", v |-> b]
IsNone(x) == x.t = "none"

\* dict.get(key, default)
Get(dict, key, default) ==
    IF key \in DOMAIN dict.v THEN dict.v[key] ELSE default

\* Python truthiness of the values a JSON document can hold
Truthy(x) ==
    CASE x.t = "none" -> FALSE
      [] x.t = "dict" -> DOMAIN x.v # {}
      [] x.t = "int"  -> x.v # 0
      [] x.t = "str"  -> Len(x.v) > 0
      [] OTHER        -> TRUE

Min(a, b) == IF a < b THEN a ELSE b

(***************************************************************************)
(* bytearray.fromhex: pairs of hexadecimal digits; an odd number of digits *)
(* or a non-hexadecimal character raises ValueError.                       *)
(***************************************************************************)
HexDigits == <<"0", "1", "2", "3", "4", "5", "6", "7",
               "8", "9", "a", "b", "c", "d", "e", "f">>

IsHexDigit(c) == \E i \in 1..Len(HexDigits) : HexDigits[i] = c

HexVal(c) == (CHOOSE i \in 1..Len(HexDigits) : HexDigits[i] = c) - 1

FromHexOk(s) ==
    /\ Len(s) % 2 = 0
    /\ \A i \in 1..Len(s) : IsHexDigit(s[i])

FromHex(s) ==
    [i \in 1..(Len(s) \div 2) |-> 16 * HexVal(s[2 * i - 1]) + HexVal(s[2 * i])]

(***************************************************************************)
(* str.split(":") and int(): the address parsing of main, lines 109-110.   *)
(***************************************************************************)
RECURSIVE Split(_, _)
Split(s, sep) ==
    IF \A i \in 1..Len(s) : s[i] # sep
    THEN <<s>>
    ELSE LET k == CHOOSE i \in 1..Len(s) :
                     /\ s[i] = sep
                     /\ \A j \in 1..(i - 1) : s[j] # sep
         IN  <<SubSeq(s, 1, k - 1)>> \o Split(SubSeq(s, k + 1, Len(s)), sep)

DecDigits == <<"0", "1", "2", "3", "4", "5", "6", "7", "8", "9">>

IsDecDigit(c) == \E i \in 1..Len(DecDigits) : DecDigits[i] = c

DecVal(c) == (CHOOSE i \in 1..Len(DecDigits) : DecDigits[i] = c) - 1

IntOk(s) == Len(s) > 0 /\ \A i \in 1..Len(s) : IsDecDigit(s[i])

RECURSIVE ParseInt(_)
ParseInt(s) ==
    IF Len(s) = 0 THEN 0
    ELSE 10 * ParseInt(SubSeq(s, 1, Len(s) - 1)) + DecVal(s[Len(s)])

(***************************************************************************)
(* The KEM provider (mlkem.implementation.mlkem.MLKEM), by its call        *)
(* contract: KeyGen(d, z) -> (ek, dk), Decaps(dk, c) -> K.  The results    *)
(* are uninterpreted terms over their arguments.                           *)
(***************************************************************************)
KeyGen(sd, sz) ==
    [ek |-> [t |-> "ek", v |-> <<sd, sz>>],
     dk |-> [t |-> "dk", v |-> <<sd, sz>>]]

Decaps(k, c) == [t |-> "secret", v |-> <<k, c>>]

(***************************************************************************)
(* State.                                                                  *)
(***************************************************************************)
VARIABLES
    param_file,   \* the parameter file: [exists, wellformed, value]
    address,      \* args.address: None or a string
    pc,           \* position of main
    mem,          \* main's local variables
    cipher_text,  \* the accumulation buffer of wait_for_bob_response
    sock,         \* Alice's sockets: bob_socket, alice_socket, alice_conn
    acc,          \* the peer connection accept() returned (0: none)
    result,       \* main's return value, the exit status, exception, error log
    conns,        \* the peers' connections to Alice's listen port
    backlog,      \* established connections not yet accepted
    wire,         \* every write Alice made on a socket, in order
    calls,        \* how many times each step was performed
    env           \* what the environment did: counters and their bounds

vars == <<param_file, address, pc, mem, cipher_text, sock, acc, result,
          conns, backlog, wire, calls, env>>

Conn == 1..MaxConns

\* byte i of the stream that peer c sends
ByteAt(c, i) == (i + 97 * c) % 256

\* the first n bytes of the stream of peer c
Stream(c, n) == [i \in 1..n |-> ByteAt(c, i)]

\* the sizes of the peers' send calls
PeerChunkSizes ==
    {1, CIPHER_TEXT_SIZE_IN_BYTES - 1, CIPHER_TEXT_SIZE_IN_BYTES,
     CIPHER_TEXT_SIZE_IN_BYTES + 1}

\* the sizes of a recv that returns less than it could
PartialSizes == {1, CIPHER_TEXT_SIZE_IN_BYTES - 1}

(***************************************************************************)
(* The parameter files and command lines considered.                       *)
(***************************************************************************)
SeedD == {Absent, PyStr(<<>>), PyStr(<<"0", "f">>), PyStr(<<"0", "g">>),
          PyStr(<<"0">>)}

SeedZ == {Absent, PyStr(<<"f", "0">>), PyStr(<<"g", "0">>)}

Connections ==
    {Absent,
     PyDict([k \in {} |-> None]),
     PyDict([k \in {"host"} |-> PyStr(<<"h">>)]),
     PyDict([k \in {"port"} |-> PyInt(MIN_LISTEN_PORT - 1)]),
     PyDict([k \in {"port"} |-> PyInt(MIN_LISTEN_PORT)]),
     PyDict([k \in {"port"} |-> PyStr(<<"1", "0", "2", "4">>)]),
     PyInt(MIN_LISTEN_PORT)}

MkParams(dv, zv, cv) ==
    LET val  == [k \in {"d", "z", "connections"} |->
                    IF k = "d" THEN dv ELSE IF k = "z" THEN zv ELSE cv]
        keys == {k \in {"d", "z", "connections"} : val[k].t # "absent"}
    IN  PyDict([k \in keys |-> val[k]])

ParamFiles ==
    {[exists |-> FALSE, wellformed |-> FALSE, value |-> None],
     [exists |-> TRUE, wellformed |-> FALSE, value |-> None],
     [exists |-> TRUE, wellformed |-> TRUE, value |-> PyStr(<<"x">>)]}
    \cup {[exists |-> TRUE, wellformed |-> TRUE, value |-> MkParams(dv, zv, cv)] :
            dv \in SeedD, zv \in SeedZ, cv \in Connections}

Addresses ==
    {None, PyStr(<<"h", ":", "6">>), PyStr(<<"h">>), PyStr(<<"h", ":", "x">>)}

Steps == {"load", "keygen", "connect", "sendall", "bind", "accept",
          "decaps", "report"}

\* the state of main, of its sockets and of the peers before main starts
InitState ==
    /\ pc = "start"
    /\ mem = [params |-> None, d |-> None, z |-> None, ek |-> None,
              dk |-> None, bob_address |-> None, bob_port |-> None,
              send_ok |-> None, listen_port |-> None,
              ciphered_text |-> None, alice_k |-> None]
    /\ cipher_text = <<>>
    /\ sock = [bob_socket |-> "none", alice_socket |-> "none",
               alice_conn |-> "none"]
    /\ acc = 0
    /\ result = [retval |-> None, exitCode |-> None, exc |-> "none",
                 errors |-> <<>>, reported |-> None]
    /\ conns = [c \in Conn |-> [status |-> "idle", sent |-> 0, rd |-> 0]]
    /\ backlog = <<>>
    /\ wire = <<>>
    /\ calls = [s \in Steps |-> 0]

Init ==
    /\ param_file \in ParamFiles
    /\ address \in Addresses
    /\ InitState
    /\ env = [peerSends |-> 0, partials |-> 0, connect |-> "none",
              reads |-> 0, maxPartials |-> MaxPartialReads]

(***************************************************************************)
(* How main ends.                                                          *)
(***************************************************************************)
\* logger.error(msg); return 1  -- and sys.exit(1) at line 141
Return1(msg) ==
    /\ pc' = "Aborted"
    /\ result' = [result EXCEPT !.retval = PyInt(1), !.exitCode = PyInt(1),
                                !.errors = Append(@, msg)]

\* an exception no handler catches: main does not return, nothing is
\* logged, the interpreter prints the traceback and exits with status 1
Raise(e) ==
    /\ pc' = "Crashed"
    /\ result' = [result EXCEPT !.exc = e, !.exitCode = PyInt(1)]

Count(step) == calls' = [calls EXCEPT ![step] = @ + 1]

\* the peers' connections after Alice closed her listening socket and the
\* accepted connection: the established ones are gone
Dropped ==
    [c \in Conn |-> IF conns[c].status = "open"
                    THEN [conns[c] EXCEPT !.status = "dropped"]
                    ELSE conns[c]]

(***************************************************************************)
(* main, lines 79-85: open the parameter file and parse it.                *)
(***************************************************************************)
LoadParams ==
    /\ pc = "start"
    /\ Count("load")
    /\ IF ~param_file.exists
       THEN Return1("ConfigNotFound") /\ UNCHANGED mem
       ELSE IF ~param_file.wellformed
       THEN Raise("JSONDecodeError") /\ UNCHANGED mem
       ELSE /\ mem' = [mem EXCEPT !.params = param_file.value]
            /\ pc' = "loaded"
            /\ UNCHANGED result
    /\ UNCHANGED <<param_file, address, cipher_text, sock, acc, conns,
                   backlog, wire, env>>

(***************************************************************************)
(* main, lines 91-96: fetch d and z, refuse a file without them.           *)
(***************************************************************************)
SeedsMissing(d, z) == IsNone(d) \/ IsNone(z)

GetSeeds ==
    /\ pc = "loaded"
    /\ IF mem.params.t # "dict"
       THEN Raise("AttributeError") /\ UNCHANGED mem
       ELSE LET d == Get(mem.params, "d", None)
                z == Get(mem.params, "z", None)
            IN  /\ mem' = [mem EXCEPT !.d = d, !.z = z]
                /\ IF SeedsMissing(d, z)
                   THEN Return1("MissingSeed")
                   ELSE pc' = "seeds_ok" /\ UNCHANGED result
    /\ UNCHANGED <<param_file, address, cipher_text, sock, acc, conns,
                   backlog, wire, calls, env>>

(***************************************************************************)
(* main, lines 98-99: bytearray.fromhex of both seeds.                     *)
(***************************************************************************)
DecodeSeeds ==
    /\ pc = "seeds_ok"
    /\ IF FromHexOk(mem.d.v) /\ FromHexOk(mem.z.v)
       THEN /\ mem' = [mem EXCEPT !.d = PyBytes(FromHex(mem.d.v)),
                                  !.z = PyBytes(FromHex(mem.z.v))]
            /\ pc' = "decoded"
            /\ UNCHANGED result
       ELSE Raise("ValueError") /\ UNCHANGED mem
    /\ UNCHANGED <<param_file, address, cipher_text, sock, acc, conns,
                   backlog, wire, calls, env>>

(***************************************************************************)
(* main, lines 101-102: KeyGen.                                            *)
(***************************************************************************)
KeyGenStep ==
    /\ pc = "decoded"
    /\ LET kp == KeyGen(mem.d.v, mem.z.v)
       IN  mem' = [mem EXCEPT !.ek = kp.ek, !.dk = kp.dk]
    /\ Count("keygen")
    /\ pc' = "keygen_done"
    /\ UNCHANGED <<param_file, address, cipher_text, sock, acc, result,
                   conns, backlog, wire, env>>

(***************************************************************************)
(* main, lines 104-110: Bob's address.                                     *)
(***************************************************************************)
ParseAddress ==
    /\ pc = "keygen_done"
    /\ IF IsNone(address)
       THEN Return1("NoPeerAddress") /\ UNCHANGED mem
       ELSE LET parts == Split(address.v, ":")
            IN  IF Len(parts) < 2
                THEN Raise("IndexError") /\ UNCHANGED mem
                ELSE IF ~IntOk(parts[2])
                THEN Raise("ValueError") /\ UNCHANGED mem
                ELSE /\ mem' = [mem EXCEPT
                                  !.bob_address = PyStr(parts[1]),
                                  !.bob_port = PyInt(ParseInt(parts[2]))]
                     /\ pc' = "addr_ok"
                     /\ UNCHANGED result
    /\ UNCHANGED <<param_file, address, cipher_text, sock, acc, conns,
                   backlog, wire, calls, env>>

(***************************************************************************)
(* send_ek_to_bob, lines 40-49, called at line 113 with ek.                *)
(***************************************************************************)
\* mutant of SendPayload: the other half of the key pair is sent
SendPayload_dk == mem.dk

\* the payload main hands to send_ek_to_bob (line 113)
SendPayload == mem.ek

\* mutant of ConnectOk: the listening socket is opened before the key is sent
ConnectOk_listening ==
    /\ pc = "addr_ok"
    /\ Count("connect")
    /\ env' = [env EXCEPT !.connect = "connected"]
    /\ sock' = [sock EXCEPT !.bob_socket = "open", !.alice_socket = "open"]
    /\ pc' = "connected"
    /\ UNCHANGED <<param_file, address, mem, cipher_text, acc, result,
                   conns, backlog, wire>>

\* lines 42-44, the peer accepts the connection
ConnectOk ==
    /\ pc = "addr_ok"
    /\ Count("connect")
    /\ env' = [env EXCEPT !.connect = "connected"]
    /\ sock' = [sock EXCEPT !.bob_socket = "open"]
    /\ pc' = "connected"
    /\ UNCHANGED <<param_file, address, mem, cipher_text, acc, result,
                   conns, backlog, wire>>

\* lines 44, 48-49: ConnectionRefusedError is caught, the with statement
\* has closed the socket, the function returns False
ConnectRefused ==
    /\ pc = "addr_ok"
    /\ Count("connect")
    /\ env' = [env EXCEPT !.connect = "refused"]
    /\ sock' = [sock EXCEPT !.bob_socket = "closed"]
    /\ mem' = [mem EXCEPT !.send_ok = PyBool(FALSE)]
    /\ pc' = "send_returned"
    /\ UNCHANGED <<param_file, address, cipher_text, acc, result, conns,
                   backlog, wire>>

\* line 44 raising anything else (a timeout, an unreachable or unknown
\* host): no handler, the with statement closes the socket
ConnectError ==
    /\ pc = "addr_ok"
    /\ Count("connect")
    /\ env' = [env EXCEPT !.connect = "error"]
    /\ sock' = [sock EXCEPT !.bob_socket = "closed"]
    /\ Raise("OSError")
    /\ UNCHANGED <<param_file, address, mem, cipher_text, acc, conns,
                   backlog, wire>>

\* line 45, sendall: one more piece of the payload is written
SendBlock ==
    /\ pc = "connected"
    /\ Len(wire) < EkBlocks
    /\ wire' = Append(wire, [sock |-> "bob_socket", data |-> SendPayload,
                             block |-> Len(wire) + 1])
    /\ UNCHANGED <<param_file, address, pc, mem, cipher_text, sock, acc,
                   result, conns, backlog, calls, env>>

\* line 45, sendall failing before the whole payload is written (the peer
\* reset the connection): no handler
SendError ==
    /\ pc = "connected"
    /\ Len(wire) < EkBlocks
    /\ sock' = [sock EXCEPT !.bob_socket = "closed"]
    /\ Raise("ConnectionResetError")
    /\ UNCHANGED <<param_file, address, mem, cipher_text, acc, conns,
                   backlog, wire, calls, env>>

\* mutant of SendDone: success is reported as soon as something was written
SendDone_partial ==
    /\ pc = "connected"
    /\ Len(wire) >= 1
    /\ Count("sendall")
    /\ sock' = [sock EXCEPT !.bob_socket = "closed"]
    /\ mem' = [mem EXCEPT !.send_ok = PyBool(TRUE)]
    /\ pc' = "send_returned"
    /\ UNCHANGED <<param_file, address, cipher_text, acc, result, conns,
                   backlog, wire, env>>

\* lines 45-46: sendall has written everything, the with statement closes
\* the socket, the function returns True
SendDone ==
    /\ pc = "connected"
    /\ Len(wire) = EkBlocks
    /\ Count("sendall")
    /\ sock' = [sock EXCEPT !.bob_socket = "closed"]
    /\ mem' = [mem EXCEPT !.send_ok = PyBool(TRUE)]
    /\ pc' = "send_returned"
    /\ UNCHANGED <<param_file, address, cipher_text, acc, result, conns,
                   backlog, wire, env>>

\* mutant of CheckSend: a failed send is tried again
CheckSend_retry ==
    /\ pc = "send_returned"
    /\ pc' = IF ~mem.send_ok.v THEN "addr_ok" ELSE "sent"
    /\ UNCHANGED <<param_file, address, mem, cipher_text, sock, acc, result,
                   conns, backlog, wire, calls, env>>

\* mutant of CheckSend: the result of send_ek_to_bob is not looked at
CheckSend_ignored ==
    /\ pc = "send_returned"
    /\ pc' = "sent"
    /\ UNCHANGED <<param_file, address, mem, cipher_text, sock, acc, result,
                   conns, backlog, wire, calls, env>>

\* main, lines 113-115
CheckSend ==
    /\ pc = "send_returned"
    /\ IF ~mem.send_ok.v
       THEN Return1("SendFailed")
       ELSE pc' = "sent" /\ UNCHANGED result
    /\ UNCHANGED <<param_file, address, mem, cipher_text, sock, acc, conns,
                   backlog, wire, calls, env>>

(***************************************************************************)
(* main, lines 117-126: the listen port.                                   *)
(***************************************************************************)
\* mutant of PortInvalid: the comparison is off by one
PortInvalid_offbyone(p) == p < MIN_LISTEN_PORT - 1

\* mutant of PortInvalid: only negative ports are refused
PortInvalid_negative(p) == p < 0

PortInvalid(p) == p < MIN_LISTEN_PORT

CheckListenConfig ==
    /\ pc = "sent"
    /\ LET connections == Get(mem.params, "connections", None)
       IN  IF ~Truthy(connections)
           THEN Return1("MissingListenConfig") /\ UNCHANGED mem
           ELSE IF connections.t # "dict"
           THEN Raise("AttributeError") /\ UNCHANGED mem
           ELSE LET listen_port == Get(connections, "port", PyInt(0))
                IN  /\ mem' = [mem EXCEPT !.listen_port = listen_port]
                    /\ IF listen_port.t # "int"
                       THEN Raise("TypeError")
                       ELSE IF PortInvalid(listen_port.v)
                       THEN Return1("InvalidPort")
                       ELSE pc' = "port_ok" /\ UNCHANGED result
    /\ UNCHANGED <<param_file, address, cipher_text, sock, acc, conns,
                   backlog, wire, calls, env>>

(***************************************************************************)
(* wait_for_bob_response, lines 52-66.                                     *)
(***************************************************************************)
\* lines 54-56: socket, bind, listen
BindListen ==
    /\ pc = "port_ok"
    /\ Count("bind")
    /\ sock' = [sock EXCEPT !.alice_socket = "open"]
    /\ pc' = "listening"
    /\ UNCHANGED <<param_file, address, mem, cipher_text, acc, result,
                   conns, backlog, wire, env>>

\* line 55 raising (the port is in use): no handler, the with statement
\* closes the socket
BindError ==
    /\ pc = "port_ok"
    /\ Count("bind")
    /\ sock' = [sock EXCEPT !.alice_socket = "closed"]
    /\ Raise("OSError")
    /\ UNCHANGED <<param_file, address, mem, cipher_text, acc, conns,
                   backlog, wire, env>>

\* mutant of Accept: waiting for a connection times out
Accept_timeout ==
    /\ pc = "listening"
    /\ IF backlog # <<>>
       THEN /\ Count("accept")
            /\ acc' = Head(backlog)
            /\ backlog' = Tail(backlog)
            /\ sock' = [sock EXCEPT !.alice_conn = "open"]
            /\ cipher_text' = <<>>
            /\ pc' = "loop"
            /\ UNCHANGED result
       ELSE /\ sock' = [sock EXCEPT !.alice_socket = "closed"]
            /\ Raise("TimeoutError")
            /\ UNCHANGED <<calls, acc, backlog, cipher_text>>
    /\ UNCHANGED <<param_file, address, mem, conns, wire, env>>

\* lines 57-59: accept blocks until a connection is established, then the
\* buffer starts empty
Accept ==
    /\ pc = "listening"
    /\ backlog # <<>>
    /\ Count("accept")
    /\ acc' = Head(backlog)
    /\ backlog' = Tail(backlog)
    /\ sock' = [sock EXCEPT !.alice_conn = "open"]
    /\ cipher_text' = <<>>
    /\ pc' = "loop"
    /\ UNCHANGED <<param_file, address, mem, result, conns, wire, env>>

\* mutant of LoopCond: the comparison is off by one
LoopCond_le(buf) == Len(buf) <= CIPHER_TEXT_SIZE_IN_BYTES

\* line 60, the loop condition
LoopCond(buf) == Len(buf) < CIPHER_TEXT_SIZE_IN_BYTES

\* mutant of RecvRequest: the full size is asked for on every call
RecvRequest_full(buf) == CIPHER_TEXT_SIZE_IN_BYTES

\* line 61, the number of bytes asked of recv
RecvRequest(buf) == CIPHER_TEXT_SIZE_IN_BYTES - Len(buf)

\* mutant of Accumulate: the buffer is replaced, not extended
Accumulate_replace(buf, data) == data

\* mutant of Accumulate: the data are put in front of the buffer
Accumulate_front(buf, data) == data \o buf

\* line 64
Accumulate(buf, data) == buf \o data

LoopTest ==
    /\ pc = "loop"
    /\ pc' = IF LoopCond(cipher_text) THEN "recv" ELSE "loop_exit"
    /\ UNCHANGED <<param_file, address, mem, cipher_text, sock, acc, result,
                   conns, backlog, wire, calls, env>>

\* the sizes recv may return when n bytes can be returned: all of them, or,
\* a bounded number of times, fewer
RecvSizes(n) ==
    {n} \cup (IF env.partials < env.maxPartials
              THEN {k \in PartialSizes : k < n}
              ELSE {})

\* lines 61-64: recv returns data, which is appended to the buffer
RecvData ==
    /\ pc = "recv"
    /\ conns[acc].status \in {"open", "closed"}
    /\ LET avail == conns[acc].sent - conns[acc].rd
           n     == Min(RecvRequest(cipher_text), avail)
       IN  /\ n > 0
           /\ \E k \in RecvSizes(n) :
                LET data == [i \in 1..k |-> ByteAt(acc, conns[acc].rd + i)]
                IN  /\ cipher_text' = Accumulate(cipher_text, data)
                    /\ conns' = [conns EXCEPT ![acc].rd = @ + k]
                    /\ env' = [env EXCEPT
                                 !.partials = IF k < n THEN @ + 1 ELSE @,
                                 !.reads = @ + 1]
    /\ pc' = "loop"
    /\ UNCHANGED <<param_file, address, mem, sock, acc, result, backlog,
                   wire, calls>>

\* mutant of RecvEof: after an early close another connection is accepted
RecvEof_reaccept ==
    /\ pc = "recv"
    /\ conns[acc].status = "closed"
    /\ conns[acc].sent = conns[acc].rd
    /\ pc' = "listening"
    /\ UNCHANGED <<param_file, address, mem, cipher_text, sock, acc, result,
                   conns, backlog, wire, calls, env>>

\* lines 61-63: recv returns no data (the peer closed and everything it
\* sent was read, or nothing was asked for), the loop is left
RecvEof ==
    /\ pc = "recv"
    /\ \/ /\ conns[acc].status = "closed"
          /\ conns[acc].sent = conns[acc].rd
       \/ /\ conns[acc].status \in {"open", "closed"}
          /\ RecvRequest(cipher_text) = 0
    /\ pc' = "loop_exit"
    /\ UNCHANGED <<param_file, address, mem, cipher_text, sock, acc, result,
                   conns, backlog, wire, calls, env>>

\* line 61 raising (the peer reset the connection): no handler, the with
\* statements close both sockets
RecvError ==
    /\ pc = "recv"
    /\ conns[acc].status = "aborted"
    /\ sock' = [sock EXCEPT !.alice_conn = "closed", !.alice_socket = "closed"]
    /\ conns' = Dropped
    /\ backlog' = <<>>
    /\ Raise("ConnectionResetError")
    /\ UNCHANGED <<param_file, address, mem, cipher_text, acc, wire, calls,
                   env>>

\* mutant of ReturnCipherText: the listening socket is left open
ReturnCipherText_leak ==
    /\ pc = "loop_exit"
    /\ sock' = [sock EXCEPT !.alice_conn = "closed"]
    /\ mem' = [mem EXCEPT !.ciphered_text = PyBytes(cipher_text)]
    /\ pc' = "received"
    /\ UNCHANGED <<param_file, address, cipher_text, acc, result, wire,
                   calls, env, conns, backlog>>

\* line 66 and the ends of both with statements; main, line 129
ReturnCipherText ==
    /\ pc = "loop_exit"
    /\ sock' = [sock EXCEPT !.alice_conn = "closed", !.alice_socket = "closed"]
    /\ conns' = Dropped
    /\ backlog' = <<>>
    /\ mem' = [mem EXCEPT !.ciphered_text = PyBytes(cipher_text)]
    /\ pc' = "received"
    /\ UNCHANGED <<param_file, address, cipher_text, acc, result, wire,
                   calls, env>>

(***************************************************************************)
(* main, lines 131-137.                                                    *)
(***************************************************************************)
\* mutant of DecapsStep: a short ciphertext is refused
DecapsStep_checked ==
    /\ pc = "received"
    /\ IF Len(mem.ciphered_text.v) < CIPHER_TEXT_SIZE_IN_BYTES
       THEN Return1("ShortRead") /\ UNCHANGED <<mem, calls>>
       ELSE /\ Count("decaps")
            /\ mem' = [mem EXCEPT
                         !.alice_k = Decaps(mem.dk, mem.ciphered_text.v)]
            /\ pc' = "decapsed"
            /\ UNCHANGED result
    /\ UNCHANGED <<param_file, address, cipher_text, sock, acc, conns,
                   backlog, wire, env>>

DecapsStep ==
    /\ pc = "received"
    /\ Count("decaps")
    /\ mem' = [mem EXCEPT !.alice_k = Decaps(mem.dk, mem.ciphered_text.v)]
    /\ pc' = "decapsed"
    /\ UNCHANGED <<param_file, address, cipher_text, sock, acc, result,
                   conns, backlog, wire, env>>

Report ==
    /\ pc = "decapsed"
    /\ Count("report")
    /\ result' = [result EXCEPT !.reported = mem.alice_k,
                                !.retval = PyInt(0), !.exitCode = PyInt(0)]
    /\ pc' = "Done"
    /\ UNCHANGED <<param_file, address, mem, cipher_text, sock, acc, conns,
                   backlog, wire, env>>

(***************************************************************************)
(* The peers: each may connect to Alice's listen port, send, close, reset. *)
(***************************************************************************)
\* a peer's connect: established when Alice is listening, refused otherwise
\* (the peers are numbered in the order of their connects)
PeerConnect(c) ==
    /\ conns[c].status = "idle"
    /\ \A b \in 1..(c - 1) : conns[b].status # "idle"
    /\ IF sock.alice_socket = "open"
       THEN /\ conns' = [conns EXCEPT ![c].status = "open"]
            /\ backlog' = Append(backlog, c)
       ELSE /\ conns' = [conns EXCEPT ![c].status = "refused"]
            /\ UNCHANGED backlog
    /\ UNCHANGED <<param_file, address, pc, mem, cipher_text, sock, acc,
                   result, wire, calls, env>>

PeerSend(c) ==
    /\ conns[c].status = "open"
    /\ env.peerSends < MaxPeerSends
    /\ \E k \in PeerChunkSizes :
         /\ conns[c].sent + k <= CIPHER_TEXT_SIZE_IN_BYTES + MaxExtra
         /\ conns' = [conns EXCEPT ![c].sent = @ + k]
    /\ env' = [env EXCEPT !.peerSends = @ + 1]
    /\ UNCHANGED <<param_file, address, pc, mem, cipher_text, sock, acc,
                   result, backlog, wire, calls>>

PeerClose(c) ==
    /\ conns[c].status = "open"
    /\ conns' = [conns EXCEPT ![c].status = "closed"]
    /\ UNCHANGED <<param_file, address, pc, mem, cipher_text, sock, acc,
                   result, backlog, wire, calls, env>>

PeerAbort(c) ==
    /\ conns[c].status = "open"
    /\ conns' = [conns EXCEPT ![c].status = "aborted"]
    /\ UNCHANGED <<param_file, address, pc, mem, cipher_text, sock, acc,
                   result, backlog, wire, calls, env>>

(***************************************************************************)
(* The specification.                                                      *)
(***************************************************************************)
AliceNext ==
    \/ LoadParams
    \/ GetSeeds
    \/ DecodeSeeds
    \/ KeyGenStep
    \/ ParseAddress
    \/ ConnectOk
    \/ ConnectRefused
    \/ ConnectError
    \/ SendBlock
    \/ SendError
    \/ SendDone
    \/ CheckSend
    \/ CheckListenConfig
    \/ BindListen
    \/ BindError
    \/ Accept
    \/ LoopTest
    \/ RecvData
    \/ RecvEof
    \/ RecvError
    \/ ReturnCipherText
    \/ DecapsStep
    \/ Report

PeerNext ==
    \E c \in Conn : PeerConnect(c) \/ PeerSend(c) \/ PeerClose(c) \/ PeerAbort(c)

Next == AliceNext \/ PeerNext

Spec == Init /\ [][Next]_vars

\* main runs as one thread of a scheduled process: a step it can take it
\* takes; the peers are under no obligation
FairSpec == Spec /\ WF_vars(AliceNext)

(***************************************************************************)
(* The receive loop byte by byte: one run of main with a parameter file    *)
(* and an address that pass every check, one peer, and recv free to return *)
(* fewer bytes than it could on every call.                                *)
(***************************************************************************)
RecvInit ==
    /\ param_file =
         [exists |-> TRUE, wellformed |-> TRUE,
          value |-> MkParams(PyStr(<<"0", "f">>), PyStr(<<"f", "0">>),
                     PyDict([k \in {"port"} |-> PyInt(MIN_LISTEN_PORT)]))]
    /\ address = PyStr(<<"h", ":", "6">>)
    /\ InitState
    /\ env = [peerSends |-> 0, partials |-> 0, connect |-> "none",
              reads |-> 0, maxPartials |-> CIPHER_TEXT_SIZE_IN_BYTES]

RecvNext ==
    \/ AliceNext
    \/ PeerConnect(1)
    \/ PeerSend(1)
    \/ PeerClose(1)
    \/ PeerAbort(1)

RecvSpec == RecvInit /\ [][RecvNext]_vars

(***************************************************************************)
(* Vocabulary of the properties.                                           *)
(***************************************************************************)
Terminal == {"Done", "Aborted", "Crashed"}

IsDictFile ==
    param_file.exists /\ param_file.wellformed /\ param_file.value.t = "dict"

HasKey(k) == IsDictFile /\ k \in DOMAIN param_file.value.v

\* the listen configuration of the parameter file is the one main accepts
ListenConfigValid ==
    /\ HasKey("connections")
    /\ param_file.value.v["connections"].t = "dict"
    /\ "port" \in DOMAIN param_file.value.v["connections"].v
    /\ param_file.value.v["connections"].v["port"].t = "int"
    /\ param_file.value.v["connections"].v["port"].v >= MIN_LISTEN_PORT

IsInt(x, n) == x.t = "int" /\ x.v = n

\* the order of the steps, as counted in calls
C1_Order ==
    /\ \A s \in Steps : calls[s] <= 1
    /\ calls["keygen"] = 1 =>
         calls["load"] = 1 /\ mem.params.t = "dict" /\ mem.d.t = "bytes"
    /\ calls["connect"] = 1 => calls["keygen"] = 1 /\ mem.bob_port.t = "int"
    /\ calls["sendall"] = 1 => calls["connect"] = 1 /\ Len(wire) = EkBlocks
    /\ calls["bind"] = 1 =>
         calls["sendall"] = 1 /\ mem.send_ok = PyBool(TRUE)
                              /\ sock.bob_socket = "closed"
    /\ calls["accept"] = 1 => calls["bind"] = 1
    /\ calls["decaps"] = 1 =>
         calls["accept"] = 1 /\ mem.ciphered_text.t = "bytes"
    /\ calls["report"] = 1 => calls["decaps"] = 1 /\ mem.alice_k.t = "secret"
    /\ pc \in {"keygen_done", "addr_ok", "connected", "send_returned", "sent",
               "port_ok", "listening", "loop", "recv", "loop_exit",
               "received", "decapsed", "Done"} => calls["keygen"] = 1

\* a terminated flow takes no further step
C1_TerminalIsFinal ==
    pc \in Terminal =>
        /\ pc' = pc
        /\ calls' = calls
        /\ sock' = sock
        /\ wire' = wire

\* C1: the steps happen in the order load, KeyGen, connect/send, bind,
\* accept, Decaps, report; each at most once, each only after the earlier
\* ones succeeded, KeyGen exactly once wherever the flow is past it; and a
\* terminated flow performs no further step.
C1_StrictSequence == [](C1_Order) /\ [][C1_TerminalIsFinal]_vars

C1_Witness == pc = "Done" /\ \A s \in Steps : calls[s] = 1

\* C5: when the peer refuses the outbound connection, send_ek_to_bob
\* returns False, main ends with status 1, and no listening socket is
\* bound, no connection accepted, Decaps not called.
C5_RefusedAborts ==
    env.connect = "refused" =>
        /\ mem.send_ok = PyBool(FALSE)
        /\ pc \in {"send_returned", "Aborted"}
        /\ pc = "Aborted" =>
             /\ IsInt(result.retval, 1)
             /\ IsInt(result.exitCode, 1)
             /\ result.errors = <<"SendFailed">>
        /\ calls["bind"] = 0 /\ calls["accept"] = 0 /\ calls["decaps"] = 0
        /\ sock.alice_socket = "none" /\ sock.alice_conn = "none"
        /\ wire = <<>>

C5_Witness == env.connect = "refused" /\ pc = "Aborted"

\* C6: every write Alice makes is a piece of the encapsulation key on the
\* outbound socket; the decapsulation key is never written, and nothing is
\* written on the listening socket or the accepted connection.
C6_OnlyEkSent ==
    \A i \in 1..Len(wire) :
        /\ wire[i].sock = "bob_socket"
        /\ wire[i].data = mem.ek
        /\ wire[i].data.t = "ek"
        /\ wire[i].data # mem.dk

C6_Witness == pc = "Done" /\ Len(wire) = EkBlocks /\ mem.dk.t = "dk"

\* the connection Alice reads or will read: the accepted one, else the
\* first established one
TheConn ==
    IF acc # 0 THEN acc
    ELSE IF backlog # <<>> THEN Head(backlog) ELSE 0

NoPeerReset == \A c \in Conn : conns[c].status # "aborted"

\* the peer of the round trip has sent a 768-byte buffer on the connection
\* Alice accepts
C2_PeerSent ==
    /\ pc \in {"listening", "loop", "recv"}
    /\ TheConn # 0
    /\ conns[TheConn].sent = CIPHER_TEXT_SIZE_IN_BYTES

C2_Done ==
    /\ pc = "Done"
    /\ IsInt(result.retval, 0) /\ IsInt(result.exitCode, 0)
    /\ mem.dk = KeyGen(mem.d.v, mem.z.v).dk
    /\ result.reported =
         Decaps(mem.dk, Stream(acc, CIPHER_TEXT_SIZE_IN_BYTES))

\* C2: round trip.  Once the peer whose connection Alice accepts has sent
\* its 768 bytes (and does not reset the connection), main reaches Done
\* with status 0 and reports Decaps(dk, c) for exactly those 768 bytes,
\* however Alice's and the peers' steps interleave.
C2_RoundTrip == ([]NoPeerReset) => (C2_PeerSent ~> C2_Done)

C2_Witness ==
    /\ C2_Done
    /\ conns[acc].sent = CIPHER_TEXT_SIZE_IN_BYTES
    /\ env.partials > 0

\* the cases of C3
C3_Case ==
    \/ ~param_file.exists
    \/ IsDictFile /\ ~HasKey("d")
    \/ IsDictFile /\ ~HasKey("z")
    \/ IsDictFile /\ ~HasKey("connections")
    \/ /\ HasKey("connections")
       /\ param_file.value.v["connections"].t = "dict"
       /\ LET port == Get(param_file.value.v["connections"], "port", PyInt(0))
          IN  port.t = "int" /\ port.v < MIN_LISTEN_PORT
    \/ IsNone(address)
    \/ env.connect = "refused"

C4_ValidatedBeforeKeyGen ==
    (calls["keygen"] > 0 \/ calls["connect"] > 0 \/ wire # <<>>) =>
        ListenConfigValid

\* the accepted peer has sent fewer than 768 bytes and closed
C7_ShortClosed ==
    /\ pc \in {"loop", "recv"}
    /\ acc # 0
    /\ conns[acc].status = "closed"
    /\ conns[acc].sent < CIPHER_TEXT_SIZE_IN_BYTES

\* wait_for_bob_response has returned what that peer sent
C7_Returned ==
    /\ acc # 0
    /\ mem.ciphered_text = PyBytes(Stream(acc, conns[acc].sent))
    /\ Len(mem.ciphered_text.v) < CIPHER_TEXT_SIZE_IN_BYTES
    /\ result.exc = "none"

\* C7: short read.  When the accepted peer has sent n < 768 bytes (n = 0
\* included, in any chunking) and closed, wait_for_bob_response returns
\* without an exception, and returns exactly those n bytes.
C7_ShortRead == C7_ShortClosed ~> C7_Returned

C7_Witness ==
    /\ pc = "received"
    /\ conns[acc].status = "closed"
    /\ conns[acc].sent = 2
    /\ mem.ciphered_text = PyBytes(Stream(acc, 2))
    /\ env.partials > 0

\* C8: the buffer is always the bytes of the accepted peer's stream read so
\* far, in order, never more than 768; what wait_for_bob_response returns
\* is the first min(768, bytes sent) bytes of that stream.
C8_StreamPrefix ==
    /\ acc # 0 =>
         /\ cipher_text = Stream(acc, conns[acc].rd)
         /\ conns[acc].rd <= CIPHER_TEXT_SIZE_IN_BYTES
    /\ \A c \in Conn : c # acc => conns[c].rd = 0
    /\ mem.ciphered_text.t = "bytes" =>
         mem.ciphered_text.v =
            Stream(acc, Min(CIPHER_TEXT_SIZE_IN_BYTES, conns[acc].sent))

C8_Witness ==
    /\ mem.ciphered_text.t = "bytes"
    /\ conns[acc].sent = CIPHER_TEXT_SIZE_IN_BYTES + 1
    /\ Len(mem.ciphered_text.v) = CIPHER_TEXT_SIZE_IN_BYTES
    /\ env.partials > 0

\* C9 (as claimed): every failure ends in Aborted: main logged an error
\* and returned 1.
C9_FailuresAbort ==
    pc \in Terminal /\ pc # "Done" =>
        /\ pc = "Aborted"
        /\ IsInt(result.retval, 1)
        /\ Len(result.errors) = 1

\* d or z is in the file as a string that is not valid hexadecimal
C10_BadHex ==
    \/ HasKey("d") /\ ~FromHexOk(param_file.value.v["d"].v)
    \/ HasKey("z") /\ ~FromHexOk(param_file.value.v["z"].v)

\* C10 (as claimed): with d or z present and not valid hexadecimal, main
\* logs the missing-seed error and returns 1, and KeyGen is not called.
C10_BadHexIsMissingSeed ==
    C10_BadHex /\ pc \in Terminal =>
        /\ pc = "Aborted"
        /\ result.errors = <<"MissingSeed">>
        /\ IsInt(result.retval, 1)
        /\ calls["keygen"] = 0

\* C11 (as claimed): KeyGen is never called with an empty seed_d or an
\* empty seed_z; from ParamsLoaded on both seeds are non-empty.
C11_SeedsNonEmpty ==
    calls["keygen"] > 0 =>
        /\ mem.d.t = "bytes" /\ Len(mem.d.v) > 0
        /\ mem.z.t = "bytes" /\ Len(mem.z.v) > 0

\* the connection section is absent or empty
C12_NoSection ==
    IsDictFile /\ ~Truthy(Get(param_file.value, "connections", None))

\* the connection section is an object whose port (0 when it has none) is
\* an integer below 1024
C12_LowPort ==
    /\ HasKey("connections")
    /\ param_file.value.v["connections"].t = "dict"
    /\ DOMAIN param_file.value.v["connections"].v # {}
    /\ LET port == Get(param_file.value.v["connections"], "port", PyInt(0))
       IN  port.t = "int" /\ port.v < MIN_LISTEN_PORT

\* main has come to its listen-port validation (lines 117-126) and left it
C12_Validated ==
    /\ mem.send_ok = PyBool(TRUE)
    /\ pc \notin {"send_returned", "sent"}

C13_SendAllOrNothing ==
    /\ mem.send_ok.t = "bool" /\ mem.send_ok.v =>
         /\ env.connect = "connected"
         /\ Len(wire) = EkBlocks
         /\ \A i \in 1..EkBlocks :
              /\ wire[i].block = i
              /\ wire[i].data = mem.ek
              /\ wire[i].sock = "bob_socket"
         /\ sock.bob_socket = "closed"
    /\ mem.send_ok.t = "bool" /\ ~mem.send_ok.v =>
         /\ env.connect = "refused"
         /\ wire = <<>>
         /\ sock.bob_socket = "closed"
    /\ (0 < Len(wire) /\ Len(wire) < EkBlocks) => mem.send_ok.t = "none"

C13_Witness ==
    /\ pc = "send_returned"
    /\ mem.send_ok = PyBool(TRUE)
    /\ Len(wire) = EkBlocks

\* the positions of main inside send_ek_to_bob's with statement
InSend == {"connected"}

\* the positions of main inside wait_for_bob_response's with statements
InReceive == {"listening", "loop", "recv", "loop_exit"}

\* C14: the outbound socket is open only inside send_ek_to_bob, the
\* listening socket and the accepted connection only inside
\* wait_for_bob_response: each is closed when its function has returned or
\* raised, and nothing is open in Done, Aborted or after an exception.
C14_ScopedSockets ==
    /\ sock.bob_socket = "open" <=> pc \in InSend
    /\ sock.alice_socket = "open" <=> pc \in InReceive
    /\ sock.alice_conn = "open" => pc \in InReceive \ {"listening"}
    /\ pc \in {"loop", "recv", "loop_exit"} => sock.alice_conn = "open"
    /\ mem.send_ok.t = "bool" => sock.bob_socket = "closed"
    /\ mem.ciphered_text.t = "bytes" =>
         sock.alice_socket = "closed" /\ sock.alice_conn = "closed"
    /\ pc = "Crashed" /\ calls["connect"] = 1 => sock.bob_socket = "closed"
    /\ pc = "Crashed" /\ calls["bind"] = 1 =>
         /\ sock.alice_socket = "closed"
         /\ calls["accept"] = 1 => sock.alice_conn = "closed"
    /\ pc \in Terminal =>
         \A k \in DOMAIN sock : sock[k] # "open"

C14_Witness ==
    /\ pc = "Crashed"
    /\ result.exc = "ConnectionResetError"
    /\ calls["accept"] = 1
    /\ sock.alice_socket = "closed" /\ sock.alice_conn = "closed"

\* what C15 says of every state
C15_OneConn ==
    /\ calls["accept"] <= 1
    /\ acc = 0 <=> calls["accept"] = 0
    /\ \A c \in Conn : c # acc => conns[c].rd = 0
    /\ acc # 0 => Len(cipher_text) = conns[acc].rd
    /\ mem.ciphered_text.t = "bytes" =>
         /\ acc # 0
         /\ mem.ciphered_text.v = Stream(acc, Len(mem.ciphered_text.v))

\* what C15 says of every step: the accepted connection never changes and
\* only it is read
C15_Step ==
    /\ acc # 0 => acc' = acc
    /\ \A c \in Conn : conns'[c].rd # conns[c].rd => c = acc /\ pc = "recv"

\* C15: accept is called once; every byte of the buffer and of the
\* returned ciphertext is read from the one accepted connection; when
\* several peers connect, nothing a second or later one sends is ever read.
C15_SingleAccept == [](C15_OneConn) /\ [][C15_Step]_vars

C15_Witness ==
    /\ mem.ciphered_text.t = "bytes"
    /\ Len(mem.ciphered_text.v) > 0
    /\ \E c \in Conn : c # acc /\ conns[c].sent > 0 /\ conns[c].rd = 0

\* what C17 says of every state
C17_State ==
    /\ mem.ciphered_text.t = "bytes" =>
         /\ pc \in {"received", "decapsed", "Done"}
         /\ mem.ciphered_text.v = cipher_text
         /\ Len(cipher_text) <= CIPHER_TEXT_SIZE_IN_BYTES
         /\ result.errors = <<>>
    /\ calls["decaps"] = 1 =>
         mem.alice_k = Decaps(mem.dk, mem.ciphered_text.v)

\* what C17 says of the step after wait_for_bob_response returned
C17_Step ==
    pc = "received" /\ pc' # "received" =>
        /\ pc' = "decapsed"
        /\ calls'["decaps"] = 1
        /\ mem'.alice_k = Decaps(mem.dk, mem.ciphered_text.v)
        /\ mem'.ciphered_text = mem.ciphered_text

\* C17: whatever wait_for_bob_response returns, of any length from 0 to
\* 768, main goes on to call Decaps(dk, ciphertext) on exactly that
\* sequence; no error is logged and no abort happens before.
C17_ShortReadNotAnError == [](C17_State) /\ [][C17_Step]_vars

C17_Witness ==
    /\ pc = "Done"
    /\ mem.ciphered_text = PyBytes(<<>>)
    /\ mem.alice_k = Decaps(mem.dk, <<>>)

\* what C19 says of every state
C19_State ==
    /\ ~(sock.bob_socket = "open" /\ sock.alice_socket = "open")
    /\ sock.alice_socket # "none" =>
         /\ sock.bob_socket = "closed"
         /\ Len(wire) = EkBlocks
         /\ mem.send_ok = PyBool(TRUE)
    /\ sock.alice_socket = "none" =>
         /\ backlog = <<>>
         /\ \A c \in Conn : conns[c].status \in {"idle", "refused"}

\* what C19 says of a peer's connect: no listener, no connection
C19_Step ==
    \A c \in Conn :
        (conns[c].status = "idle" /\ conns'[c].status # "idle") =>
            conns'[c].status =
                IF sock.alice_socket = "open" THEN "open" ELSE "refused"

\* C19: the listening socket exists only after the outbound connection was
\* fully written and closed; the two sockets are never open together; a
\* peer that connects to the listen port before it is bound, in particular
\* while the key is being sent, is refused.
C19_ListenAfterSend == [](C19_State) /\ [][C19_Step]_vars

C19_Witness ==
    /\ pc = "connected"
    /\ Len(wire) = 1
    /\ conns[1].status = "refused"

\* main waits in accept and no connection is established
C16_WaitingAccept == pc = "listening" /\ backlog = <<>>

\* main waits in recv: the accepted peer has neither sent more nor closed
C16_WaitingData ==
    /\ pc = "recv"
    /\ conns[acc].status = "open"
    /\ conns[acc].sent = conns[acc].rd

C16_Blocked == C16_WaitingAccept \/ C16_WaitingData

\* while main waits, none of its steps can be taken: it is not in Done,
\* Aborted or an exception and nothing of main changes
C16_NoWayOut ==
    C16_Blocked =>
        /\ ~ENABLED AliceNext
        /\ pc \notin Terminal
        /\ IsNone(result.exitCode)

C16_StaysBlocked ==
    C16_Blocked => pc' = pc /\ result' = result /\ sock' = sock

\* the accepted peer has delivered 768 bytes or has closed
C16_Fed ==
    /\ pc \in {"loop", "recv"}
    /\ \/ conns[acc].sent >= CIPHER_TEXT_SIZE_IN_BYTES
       \/ conns[acc].status = "closed"

\* C16: there is no timeout.  While no peer has connected, or the accepted
\* peer has neither sent the missing bytes nor closed, main can take no
\* step and is neither Done nor Aborted; and once the accepted peer has
\* delivered 768 bytes or closed, the receive loop ends.
C16_NoTimeout ==
    /\ [](C16_NoWayOut)
    /\ [][C16_StaysBlocked]_vars
    /\ (C16_Fed ~> pc \notin {"listening", "loop", "recv"})

C16_Witness ==
    /\ C16_WaitingData
    /\ Len(cipher_text) = 1

\* what C18 says of every state of the receive loop
C18_State ==
    /\ Len(cipher_text) >= 0
    /\ Len(cipher_text) <= CIPHER_TEXT_SIZE_IN_BYTES
    /\ pc = "recv" =>
         /\ RecvRequest(cipher_text) >= 1
         /\ RecvRequest(cipher_text) <= CIPHER_TEXT_SIZE_IN_BYTES
         /\ RecvRequest(cipher_text) + Len(cipher_text)
              = CIPHER_TEXT_SIZE_IN_BYTES
    /\ env.reads <= Len(cipher_text)
    /\ env.reads <= CIPHER_TEXT_SIZE_IN_BYTES

\* what C18 says of every iteration that stays in the loop
C18_Step ==
    pc = "recv" /\ pc' = "loop" =>
        /\ Len(cipher_text') > Len(cipher_text)
        /\ env'.reads = env.reads + 1

\* C18: in the receive loop the buffer holds between 0 and 768 bytes, every
\* recv asks for 768 - len(buffer) bytes, a number from 1 to 768, every
\* iteration that does not leave the loop makes the buffer longer, and so
\* at most 768 reads return data.
C18_LoopBounds == [](C18_State) /\ [][C18_Step]_vars

C18_Witness ==
    /\ env.reads = CIPHER_TEXT_SIZE_IN_BYTES
    /\ Len(cipher_text) = CIPHER_TEXT_SIZE_IN_BYTES
    /\ pc = "loop_exit"

====
